---- MODULE Spec2Model ----
(***************************************************************************)
(* The ACME Fitness Shop Pulumi program (index.ts, secrets.ts).  The       *)
(* program reads the stack configuration object `kubevars` and constructs  *)
(* Secrets, ConfigMaps, Deployments and Services one statement after the   *)
(* other; every constructor registers its resource with the deployment.    *)
(* The Pulumi engine then creates the registered resources, honouring the  *)
(* dependsOn options.                                                       *)
(***************************************************************************)
EXTENDS Integers, Sequences, FiniteSets, TLC

VARIABLES
    hasKubevars,  \* the stack configuration holds the key "kubevars"
    kubeVars,     \* the configuration object; an absent field is not in its DOMAIN
    pc,           \* the statement of index.ts that runs next, "done" or "failed"
    idx,          \* position of the running for-of loop in its array
    graph,        \* the resources registered so far, in construction order
    outputs,      \* the exported stack outputs
    inflight,     \* resources the engine is creating
    created,      \* resources the engine has created
    args          \* the arguments of the ACMESecrets constructor that runs, if any

vars == <<hasKubevars, kubeVars, pc, idx, graph, outputs, inflight, created, args>>

----------------------------------------------------------------------------
(* Bounds of the model *)

\* how many fields of the configuration may differ from the README's example
MaxDeviations == 2
\* how many resources the engine creates concurrently (pulumi up --parallel)
MaxParallel == 2
\* how many names a caller passes to the ACMESecrets constructor
MaxNames == 2

----------------------------------------------------------------------------
(* JavaScript values *)

Empty == [x \in {} |-> 0]

\* a property whose value is undefined is left out of the object
Opt(key, obj, field) == IF field \in DOMAIN obj THEN key :> obj[field] ELSE Empty

\* the truthiness of obj.field
Truthy(obj, field) == field \in DOMAIN obj /\ obj[field] = TRUE

Digits == <<"0", "1", "2", "3", "4", "5", "6", "7", "8", "9">>

\* Number.prototype.toString() of a non-negative integer
RECURSIVE toString(_)
toString(n) ==
    IF n < 10 THEN Digits[n + 1]
    ELSE toString(n \div 10) \o Digits[(n % 10) + 1]

\* string + value, as in "http://localhost:" + port
Concat(s, obj, field) ==
    IF field \in DOMAIN obj THEN s \o toString(obj[field]) ELSE s \o "undefined"

Base64Alphabet ==
    << "A", "B", "C", "D", "E", "F", "G", "H", "I", "J", "K", "L", "M",
       "N", "O", "P", "Q", "R", "S", "T", "U", "V", "W", "X", "Y", "Z",
       "a", "b", "c", "d", "e", "f", "g", "h", "i", "j", "k", "l", "m",
       "n", "o", "p", "q", "r", "s", "t", "u", "v", "w", "x", "y", "z",
       "0", "1", "2", "3", "4", "5", "6", "7", "8", "9", "+", "/" >>

B64(n) == Base64Alphabet[n + 1]

\* Buffer.from(s).toString("base64"); s is given by its UTF-8 bytes
RECURSIVE toBase64(_)
toBase64(s) ==
    IF Len(s) = 0 THEN ""
    ELSE IF Len(s) = 1 THEN
        B64(s[1] \div 4) \o B64((s[1] % 4) * 16) \o "=="
    ELSE IF Len(s) = 2 THEN
        B64(s[1] \div 4) \o B64((s[1] % 4) * 16 + (s[2] \div 16))
            \o B64((s[2] % 16) * 4) \o "="
    ELSE
        B64(s[1] \div 4) \o B64((s[1] % 4) * 16 + (s[2] \div 16))
            \o B64((s[2] % 16) * 4 + (s[3] \div 64)) \o B64(s[3] % 64)
            \o toBase64(SubSeq(s, 4, Len(s)))

----------------------------------------------------------------------------
(* The configuration: interface Data and Pulumi.dev.yaml *)

Fields ==
    { "isSingleNode", "dataStorePassword", "frontendPort", "usersPort",
      "catalogPort", "orderPort", "cartPort", "paymentPort",
      "frontendNodeport", "posNodeport" }

PortFields ==
    { "frontendPort", "usersPort", "catalogPort", "orderPort", "cartPort",
      "paymentPort" }

\* "helloworld"
HelloWorld == <<104, 101, 108, 108, 111, 119, 111, 114, 108, 100>>

\* the configuration of the README
DefaultConfig ==
    [ isSingleNode |-> TRUE,
      dataStorePassword |-> HelloWorld,
      frontendPort |-> 3000,
      usersPort |-> 8083,
      catalogPort |-> 8082,
      orderPort |-> 6000,
      cartPort |-> 5000,
      paymentPort |-> 9000,
      frontendNodeport |-> 30430,
      posNodeport |-> 30431 ]

\* the values a field is given in the model, besides the README's
Alternatives(f) ==
    CASE f = "isSingleNode" -> {FALSE}
      [] f = "dataStorePassword" -> {<<97, 98, 99>>, <<97, 98>>}
      [] f \in PortFields -> {80, 8080}
      [] OTHER -> {30080}

Drop(c, f) == [g \in DOMAIN c \ {f} |-> c[g]]

\* c with one more field changed or left out
Deviate(c) ==
    {c} \cup { Drop(c, f) : f \in DOMAIN c }
        \cup UNION { { [c EXCEPT ![f] = v] : v \in Alternatives(f) } : f \in DOMAIN c }

RECURSIVE Deviations(_)
Deviations(n) ==
    IF n = 0 THEN {DefaultConfig}
    ELSE UNION { Deviate(c) : c \in Deviations(n - 1) }

Configs == Deviations(MaxDeviations)

Valid(kv) == DOMAIN kv = Fields

----------------------------------------------------------------------------
(* Resource descriptions.  A resource is identified by its type and its    *)
(* logical name; dependsOn holds the identities of the resources named in  *)
(* the constructor's options.                                              *)

Urn(kind, logical) == <<kind, logical>>

UrnOf(r) == Urn(r.kind, r.logical)

Value(n, v) == [name |-> n, value |-> v]

SecretKeyRef(n, secret, k) ==
    [name |-> n, valueFrom |-> [secretKeyRef |-> [name |-> secret, key |-> k]]]

\* passwords with one name forgotten
passwords_withoutUsersRedis ==
    << "cart-redis-pass", "catalog-mongo-pass", "order-postgres-pass",
       "users-mongo-pass" >>

passwords ==
    << "cart-redis-pass", "catalog-mongo-pass", "order-postgres-pass",
       "users-redis-pass", "users-mongo-pass" >>

\* the Secret constructed in the loop over passwords
Secret(password, kv) ==
    [ kind |-> "Secret",
      logical |-> password,
      metadata |-> [name |-> password, namespace |-> "default"],
      type |-> "Opaque",
      data |-> [password |-> toBase64(kv.dataStorePassword)],
      dependsOn |-> {} ]

\* the seed scripts are kept by their first statement
catalogConfigMap ==
    [ kind |-> "ConfigMap",
      logical |-> "catalog-config-map",
      metadata |-> [name |-> "catalog-initdb-config"],
      data |-> [seed |-> "db.catalog.insertMany"],
      dependsOn |-> {} ]

\* usersConfigMap with the metadata.name copied from catalogConfigMap
usersConfigMap_copiedName ==
    [ kind |-> "ConfigMap",
      logical |-> "users-config-map",
      metadata |-> [name |-> "catalog-initdb-config"],
      data |-> [seed |-> "db.users.insertMany"],
      dependsOn |-> {} ]

usersConfigMap ==
    [ kind |-> "ConfigMap",
      logical |-> "users-config-map",
      metadata |-> [name |-> "users-initdb-config"],
      data |-> [seed |-> "db.users.insertMany"],
      dependsOn |-> {} ]

\* cartRedisDeployment selecting by all the labels of its metadata
cartRedisDeployment_selectsVersion ==
    [ kind |-> "Deployment",
      logical |-> "cart-redis-deployment",
      metadata |->
        [ name |-> "cart-redis",
          labels |-> [app |-> "acmefit", service |-> "cart-redis", version |-> "1.0.0"] ],
      spec |->
        [ selector |-> [matchLabels |-> [app |-> "acmefit", service |-> "cart-redis", version |-> "1.0.0"]],
          replicas |-> 1,
          template |->
            [ metadata |-> [labels |-> [app |-> "acmefit", service |-> "cart-redis"]],
              spec |->
                [ containers |-> <<
                    [ name |-> "cart-redis",
                      image |-> "bitnami/redis",
                      imagePullPolicy |-> "Always",
                      resources |-> [requests |-> [cpu |-> "100m", memory |-> "100Mi"]],
                      ports |-> << [name |-> "redis", containerPort |-> 6379, protocol |-> "TCP"] >>,
                      env |-> <<
                        Value("REDIS_HOST", "cart-redis"),
                        SecretKeyRef("REDIS_PASSWORD", "cart-redis-pass", "password") >>,
                      volumeMounts |-> << [mountPath |-> "/var/lib/redis", name |-> "cart-redis-data"] >> ] >>,
                  volumes |-> << [name |-> "cart-redis-data", emptyDir |-> Empty] >> ] ] ],
      dependsOn |-> {} ]

cartRedisDeployment ==
    [ kind |-> "Deployment",
      logical |-> "cart-redis-deployment",
      metadata |->
        [ name |-> "cart-redis",
          labels |-> [app |-> "acmefit", service |-> "cart-redis", version |-> "1.0.0"] ],
      spec |->
        [ selector |-> [matchLabels |-> [app |-> "acmefit", service |-> "cart-redis"]],
          replicas |-> 1,
          template |->
            [ metadata |-> [labels |-> [app |-> "acmefit", service |-> "cart-redis"]],
              spec |->
                [ containers |-> <<
                    [ name |-> "cart-redis",
                      image |-> "bitnami/redis",
                      imagePullPolicy |-> "Always",
                      resources |-> [requests |-> [cpu |-> "100m", memory |-> "100Mi"]],
                      ports |-> << [name |-> "redis", containerPort |-> 6379, protocol |-> "TCP"] >>,
                      env |-> <<
                        Value("REDIS_HOST", "cart-redis"),
                        SecretKeyRef("REDIS_PASSWORD", "cart-redis-pass", "password") >>,
                      volumeMounts |-> << [mountPath |-> "/var/lib/redis", name |-> "cart-redis-data"] >> ] >>,
                  volumes |-> << [name |-> "cart-redis-data", emptyDir |-> Empty] >> ] ] ],
      dependsOn |-> {} ]

cartDeployment(kv) ==
    [ kind |-> "Deployment",
      logical |-> "cart-deployment",
      metadata |-> [name |-> "cart", labels |-> [app |-> "acmefit", service |-> "cart"]],
      spec |->
        [ selector |-> [matchLabels |-> [app |-> "acmefit", service |-> "cart"]],
          replicas |-> 1,
          strategy |-> [type |-> "Recreate"],
          template |->
            [ metadata |-> [labels |-> [app |-> "acmefit", service |-> "cart"]],
              spec |->
                [ volumes |-> << [name |-> "acmefit-cart-data", emptyDir |-> Empty] >>,
                  containers |-> <<
                    [ image |-> "gcr.io/vmwarecloudadvocacy/acmeshop-cart:latest",
                      imagePullPolicy |-> "Always",
                      name |-> "cart",
                      env |-> <<
                        Value("REDIS_HOST", "cart-redis"),
                        SecretKeyRef("REDIS_PASSWORD", "cart-redis-pass", "password"),
                        Value("REDIS_PORT", "6379"),
                        Value("CART_PORT", toString(kv.cartPort)),
                        Value("USER_HOST", "users"),
                        Value("USER_PORT", toString(kv.usersPort)),
                        Value("JAEGER_AGENT_HOST", "localhost"),
                        Value("JAGER_AGENT_PORT", "6831"),
                        Value("AUTH_MODE", "1") >>,
                      ports |-> << [name |-> "cart", containerPort |-> kv.cartPort] >>,
                      volumeMounts |-> << [mountPath |-> "/data", name |-> "acmefit-cart-data"] >>,
                      resources |->
                        [ requests |-> [cpu |-> "100m", memory |-> "64Mi"],
                          limits |-> [cpu |-> "500m", memory |-> "256Mi"] ] ] >> ] ] ],
      dependsOn |-> {} ]

\* catalogMongoDeployment waiting for the Service that waits for it
catalogMongoDeployment_waitsForService ==
    [ kind |-> "Deployment",
      logical |-> "catalogmongo-deployment",
      metadata |-> [name |-> "catalog-mongo", labels |-> [app |-> "acmefit", service |-> "catalog-db"]],
      spec |->
        [ selector |-> [matchLabels |-> [app |-> "acmefit", service |-> "catalog-db"]],
          replicas |-> 1,
          template |->
            [ metadata |-> [labels |-> [app |-> "acmefit", service |-> "catalog-db"]],
              spec |->
                [ containers |-> <<
                    [ name |-> "catalog-mongo",
                      image |-> "mongo:4",
                      imagePullPolicy |-> "Always",
                      resources |-> Empty,
                      ports |-> << [name |-> "catalog-mongo", containerPort |-> 27017, protocol |-> "TCP"] >>,
                      env |-> <<
                        Value("MONGO_INITDB_ROOT_USERNAME", "mongoadmin"),
                        Value("MONGO_INITDB_DATABASE", "acmefit"),
                        SecretKeyRef("MONGO_INITDB_ROOT_PASSWORD", "catalog-mongo-pass", "password") >>,
                      volumeMounts |-> <<
                        [mountPath |-> "/data/db", name |-> "mongodata"],
                        [mountPath |-> "/docker-entrypoint-initdb.d", name |-> "mongo-initdb"] >> ] >>,
                  volumes |-> <<
                    [name |-> "mongodata", emptyDir |-> Empty],
                    [name |-> "mongo-initdb", configMap |-> [name |-> "catalog-initdb-config"]] >> ] ] ],
      dependsOn |-> {UrnOf(catalogConfigMap), Urn("Service", "catalog-mongo-service")} ]

catalogMongoDeployment ==
    [ kind |-> "Deployment",
      logical |-> "catalogmongo-deployment",
      metadata |-> [name |-> "catalog-mongo", labels |-> [app |-> "acmefit", service |-> "catalog-db"]],
      spec |->
        [ selector |-> [matchLabels |-> [app |-> "acmefit", service |-> "catalog-db"]],
          replicas |-> 1,
          template |->
            [ metadata |-> [labels |-> [app |-> "acmefit", service |-> "catalog-db"]],
              spec |->
                [ containers |-> <<
                    [ name |-> "catalog-mongo",
                      image |-> "mongo:4",
                      imagePullPolicy |-> "Always",
                      resources |-> Empty,
                      ports |-> << [name |-> "catalog-mongo", containerPort |-> 27017, protocol |-> "TCP"] >>,
                      env |-> <<
                        Value("MONGO_INITDB_ROOT_USERNAME", "mongoadmin"),
                        Value("MONGO_INITDB_DATABASE", "acmefit"),
                        SecretKeyRef("MONGO_INITDB_ROOT_PASSWORD", "catalog-mongo-pass", "password") >>,
                      volumeMounts |-> <<
                        [mountPath |-> "/data/db", name |-> "mongodata"],
                        [mountPath |-> "/docker-entrypoint-initdb.d", name |-> "mongo-initdb"] >> ] >>,
                  volumes |-> <<
                    [name |-> "mongodata", emptyDir |-> Empty],
                    [name |-> "mongo-initdb", configMap |-> [name |-> "catalog-initdb-config"]] >> ] ] ],
      dependsOn |-> {UrnOf(catalogConfigMap)} ]

catalogDeployment(kv) ==
    [ kind |-> "Deployment",
      logical |-> "catalog-deployment",
      metadata |-> [name |-> "catalog", labels |-> [app |-> "acmefit", service |-> "catalog"]],
      spec |->
        [ selector |-> [matchLabels |-> [app |-> "acmefit", service |-> "catalog"]],
          replicas |-> 1,
          strategy |-> [type |-> "Recreate"],
          template |->
            [ metadata |-> [labels |-> [app |-> "acmefit", service |-> "catalog"]],
              spec |->
                [ volumes |-> << [name |-> "acmefit-catalog-data", emptyDir |-> Empty] >>,
                  containers |-> <<
                    [ image |-> "gcr.io/vmwarecloudadvocacy/acmeshop-catalog:latest",
                      imagePullPolicy |-> "Always",
                      name |-> "catalog",
                      env |-> <<
                        Value("CATALOG_DB_HOST", "catalog-mongo"),
                        SecretKeyRef("CATALOG_DB_PASSWORD", "catalog-mongo-pass", "password"),
                        Value("CATALOG_DB_PORT", "27017"),
                        Value("CATALOG_DB_USERNAME", "mongoadmin"),
                        Value("CATALOG_PORT", toString(kv.catalogPort)),
                        Value("CATALOG_VERSION", "v1"),
                        Value("USERS_HOST", "users"),
                        Value("USERS_PORT", toString(kv.usersPort)),
                        Value("JAEGER_AGENT_HOST", "localhost"),
                        Value("JAGER_AGENT_PORT", "6831") >>,
                      ports |-> << [name |-> "catalog", containerPort |-> kv.catalogPort] >>,
                      volumeMounts |-> << [mountPath |-> "/data", name |-> "acmefit-catalog-data"] >>,
                      resources |->
                        [ requests |-> [cpu |-> "100m", memory |-> "64Mi"],
                          limits |-> [cpu |-> "500m", memory |-> "256Mi"] ] ] >> ] ] ],
      dependsOn |-> {} ]

paymentDeployment(kv) ==
    [ kind |-> "Deployment",
      logical |-> "payment-deployment",
      metadata |-> [name |-> "payment", labels |-> [app |-> "acmefit", service |-> "payment"]],
      spec |->
        [ selector |-> [matchLabels |-> [app |-> "acmefit", service |-> "payment"]],
          replicas |-> 1,
          strategy |-> [type |-> "Recreate"],
          template |->
            [ metadata |-> [labels |-> [app |-> "acmefit", service |-> "payment"]],
              spec |->
                [ containers |-> <<
                    [ image |-> "gcr.io/vmwarecloudadvocacy/acmeshop-payment:latest",
                      imagePullPolicy |-> "Always",
                      name |-> "payment",
                      env |-> <<
                        Value("PAYMENT_PORT", toString(kv.paymentPort)),
                        Value("USERS_HOST", "users"),
                        Value("USERS_PORT", toString(kv.usersPort)),
                        Value("JAEGER_AGENT_HOST", "localhost"),
                        Value("JAGER_AGENT_PORT", "6832") >>,
                      ports |-> << [name |-> "payment", containerPort |-> kv.paymentPort] >> ] >> ] ] ],
      dependsOn |-> {} ]

orderPostgresDeployment ==
    [ kind |-> "Deployment",
      logical |-> "order-postgres-deployment",
      metadata |-> [name |-> "order-postgres", labels |-> [app |-> "acmefit", service |-> "order-db"]],
      spec |->
        [ selector |-> [matchLabels |-> [app |-> "acmefit", service |-> "order-db"]],
          replicas |-> 1,
          template |->
            [ metadata |-> [labels |-> [app |-> "acmefit", service |-> "order-db"]],
              spec |->
                [ containers |-> <<
                    [ name |-> "postgres",
                      image |-> "postgres:9.5",
                      imagePullPolicy |-> "Always",
                      ports |-> << [name |-> "order-postgres", containerPort |-> 5432, protocol |-> "TCP"] >>,
                      env |-> <<
                        Value("POSTGRES_USER", "pgbench"),
                        SecretKeyRef("POSTGRES_PASSWORD", "order-postgres-pass", "password"),
                        SecretKeyRef("PGBENCH_PASSWORD", "order-postgres-pass", "password"),
                        Value("PGDATA", "/var/lib/postgresql/data/pgdata") >>,
                      volumeMounts |-> << [mountPath |-> "/var/lib/postgresql/data", name |-> "postgredb"] >> ] >>,
                  volumes |-> << [name |-> "postgredb", emptyDir |-> Empty] >> ] ] ],
      dependsOn |-> {} ]

orderDeployment(kv) ==
    [ kind |-> "Deployment",
      logical |-> "order-deployment",
      metadata |-> [name |-> "order", labels |-> [app |-> "acmefit", service |-> "order"]],
      spec |->
        [ selector |-> [matchLabels |-> [app |-> "acmefit", service |-> "order"]],
          replicas |-> 1,
          strategy |-> [type |-> "Recreate"],
          template |->
            [ metadata |-> [labels |-> [app |-> "acmefit", service |-> "order"]],
              spec |->
                [ volumes |-> << [name |-> "acmefit-order-data", emptyDir |-> Empty] >>,
                  containers |-> <<
                    [ image |-> "gcr.io/vmwarecloudadvocacy/acmeshop-order:latest",
                      imagePullPolicy |-> "Always",
                      name |-> "order",
                      env |-> <<
                        Value("ORDER_DB_HOST", "order-postgres"),
                        SecretKeyRef("ORDER_DB_PASSWORD", "order-postgres-pass", "password"),
                        Value("ORDER_DB_PORT", "5432"),
                        Value("AUTH_MODE", "1"),
                        Value("ORDER_DB_USERNAME", "pgbench"),
                        SecretKeyRef("PGPASSWORD", "order-postgres-pass", "password"),
                        Value("ORDER_AUTH_DB", "postgres"),
                        Value("ORDER_PORT", toString(kv.orderPort)),
                        Value("PAYMENT_PORT", toString(kv.paymentPort)),
                        Value("PAYMENT_HOST", "payment"),
                        Value("USER_HOST", "users"),
                        Value("USER_PORT", toString(kv.usersPort)),
                        Value("JAEGER_AGENT_HOST", "localhost"),
                        Value("JAGER_AGENT_PORT", "6831") >>,
                      ports |-> << [name |-> "order", containerPort |-> kv.orderPort] >>,
                      volumeMounts |-> << [mountPath |-> "/data", name |-> "acmefit-order-data"] >>,
                      resources |->
                        [ requests |-> [cpu |-> "100m", memory |-> "64Mi"],
                          limits |-> [cpu |-> "500m", memory |-> "256Mi"] ] ] >> ] ] ],
      dependsOn |-> {} ]

\* usersMongoDeployment constructed without the dependsOn option
usersMongoDeployment_noDependsOn ==
    [ kind |-> "Deployment",
      logical |-> "usersmongo-deployment",
      metadata |-> [name |-> "users-mongo", labels |-> [app |-> "acmefit", service |-> "users-mongo"]],
      spec |->
        [ selector |-> [matchLabels |-> [app |-> "acmefit", service |-> "users-mongo"]],
          replicas |-> 1,
          template |->
            [ metadata |-> [labels |-> [app |-> "acmefit", service |-> "users-mongo"]],
              spec |->
                [ containers |-> <<
                    [ name |-> "users-mongo",
                      image |-> "mongo:4",
                      imagePullPolicy |-> "Always",
                      resources |-> Empty,
                      ports |-> << [name |-> "users-mongo", containerPort |-> 27017, protocol |-> "TCP"] >>,
                      env |-> <<
                        Value("MONGO_INITDB_ROOT_USERNAME", "mongoadmin"),
                        Value("MONGO_INITDB_DATABASE", "acmefit"),
                        SecretKeyRef("MONGO_INITDB_ROOT_PASSWORD", "users-mongo-pass", "password") >>,
                      volumeMounts |-> <<
                        [mountPath |-> "/data/db", name |-> "mongodata"],
                        [mountPath |-> "/docker-entrypoint-initdb.d", name |-> "mongo-initdb"] >> ] >>,
                  volumes |-> <<
                    [name |-> "mongodata", emptyDir |-> Empty],
                    [name |-> "mongo-initdb", configMap |-> [name |-> "users-initdb-config"]] >> ] ] ],
      dependsOn |-> {} ]

usersMongoDeployment ==
    [ kind |-> "Deployment",
      logical |-> "usersmongo-deployment",
      metadata |-> [name |-> "users-mongo", labels |-> [app |-> "acmefit", service |-> "users-mongo"]],
      spec |->
        [ selector |-> [matchLabels |-> [app |-> "acmefit", service |-> "users-mongo"]],
          replicas |-> 1,
          template |->
            [ metadata |-> [labels |-> [app |-> "acmefit", service |-> "users-mongo"]],
              spec |->
                [ containers |-> <<
                    [ name |-> "users-mongo",
                      image |-> "mongo:4",
                      imagePullPolicy |-> "Always",
                      resources |-> Empty,
                      ports |-> << [name |-> "users-mongo", containerPort |-> 27017, protocol |-> "TCP"] >>,
                      env |-> <<
                        Value("MONGO_INITDB_ROOT_USERNAME", "mongoadmin"),
                        Value("MONGO_INITDB_DATABASE", "acmefit"),
                        SecretKeyRef("MONGO_INITDB_ROOT_PASSWORD", "users-mongo-pass", "password") >>,
                      volumeMounts |-> <<
                        [mountPath |-> "/data/db", name |-> "mongodata"],
                        [mountPath |-> "/docker-entrypoint-initdb.d", name |-> "mongo-initdb"] >> ] >>,
                  volumes |-> <<
                    [name |-> "mongodata", emptyDir |-> Empty],
                    [name |-> "mongo-initdb", configMap |-> [name |-> "users-initdb-config"]] >> ] ] ],
      dependsOn |-> {UrnOf(usersConfigMap)} ]

usersRedisDeployment ==
    [ kind |-> "Deployment",
      logical |-> "users-redis-deployment",
      metadata |-> [name |-> "users-redis", labels |-> [app |-> "acmefit", service |-> "users-redis"]],
      spec |->
        [ selector |-> [matchLabels |-> [app |-> "acmefit", service |-> "users-redis"]],
          replicas |-> 1,
          template |->
            [ metadata |-> [labels |-> [app |-> "acmefit", service |-> "users-redis"]],
              spec |->
                [ containers |-> <<
                    [ name |-> "users-redis",
                      image |-> "bitnami/redis",
                      imagePullPolicy |-> "Always",
                      resources |-> [requests |-> [cpu |-> "100m", memory |-> "100Mi"]],
                      ports |-> << [name |-> "redis", containerPort |-> 6379, protocol |-> "TCP"] >>,
                      env |-> <<
                        Value("REDIS_HOST", "users-redis"),
                        SecretKeyRef("REDIS_PASSWORD", "users-redis-pass", "password") >>,
                      volumeMounts |-> << [mountPath |-> "/var/lib/redis", name |-> "users-redis-data"] >> ] >>,
                  volumes |-> << [name |-> "users-redis-data", emptyDir |-> Empty] >> ] ] ],
      dependsOn |-> {} ]

usersDeployment(kv) ==
    [ kind |-> "Deployment",
      logical |-> "users-deployment",
      metadata |-> [name |-> "users", labels |-> [app |-> "acmefit", service |-> "users"]],
      spec |->
        [ selector |-> [matchLabels |-> [app |-> "acmefit", service |-> "users"]],
          replicas |-> 1,
          strategy |-> [type |-> "Recreate"],
          template |->
            [ metadata |-> [labels |-> [app |-> "acmefit", service |-> "users"]],
              spec |->
                [ volumes |-> << [name |-> "acmefit-users-data", emptyDir |-> Empty] >>,
                  containers |-> <<
                    [ image |-> "gcr.io/vmwarecloudadvocacy/acmeshop-user:latest",
                      imagePullPolicy |-> "Always",
                      name |-> "users",
                      env |-> <<
                        Value("USERS_DB_HOST", "users-mongo"),
                        SecretKeyRef("USERS_DB_PASSWORD", "users-mongo-pass", "password"),
                        Value("USERS_DB_PORT", "27017"),
                        Value("USERS_DB_USERNAME", "mongoadmin"),
                        Value("REDIS_HOST", "users-redis"),
                        SecretKeyRef("REDIS_PASSWORD", "users-redis-pass", "password"),
                        Value("USER_PORT", toString(kv.usersPort)),
                        Value("JAEGER_AGENT_HOST", "localhost"),
                        Value("JAGER_AGENT_PORT", "6831") >>,
                      ports |-> << [name |-> "users", containerPort |-> kv.usersPort] >>,
                      volumeMounts |-> << [mountPath |-> "/data", name |-> "acmefit-users-data"] >>,
                      resources |->
                        [ requests |-> [cpu |-> "100m", memory |-> "64Mi"],
                          limits |-> [cpu |-> "500m", memory |-> "256Mi"] ] ] >> ] ] ],
      dependsOn |-> {} ]

\* services with the catalog entry given the cart port
services_portSlip(kv) ==
    << [name |-> "cart-redis", service |-> "cart-redis", portname |-> "redis-cart",
            dependency |-> UrnOf(cartRedisDeployment)] @@ ("portnumber" :> 6379),
       [name |-> "cart", service |-> "cart", portname |-> "http-cart",
            dependency |-> UrnOf(cartDeployment(kv))] @@ Opt("portnumber", kv, "cartPort"),
       [name |-> "catalog-mongo", service |-> "catalog-db", portname |-> "mongo-catalog",
            dependency |-> UrnOf(catalogMongoDeployment)] @@ ("portnumber" :> 27017),
       [name |-> "catalog", service |-> "catalog", portname |-> "http-catalog",
            dependency |-> UrnOf(catalogDeployment(kv))] @@ Opt("portnumber", kv, "cartPort"),
       [name |-> "payment", service |-> "payment", portname |-> "http-payment",
            dependency |-> UrnOf(paymentDeployment(kv))] @@ Opt("portnumber", kv, "paymentPort"),
       [name |-> "order-postgres", service |-> "order-db", portname |-> "postgres-order",
            dependency |-> UrnOf(orderPostgresDeployment)] @@ ("portnumber" :> 5432),
       [name |-> "order", service |-> "order", portname |-> "http-order",
            dependency |-> UrnOf(orderDeployment(kv))] @@ Opt("portnumber", kv, "orderPort"),
       [name |-> "users-mongo", service |-> "users-mongo", portname |-> "mongo-users",
            dependency |-> UrnOf(usersMongoDeployment)] @@ ("portnumber" :> 27017),
       [name |-> "users-redis", service |-> "users-redis", portname |-> "redis-users",
            dependency |-> UrnOf(usersRedisDeployment)] @@ ("portnumber" :> 6379),
       [name |-> "users", service |-> "users", portname |-> "http-users",
            dependency |-> UrnOf(usersDeployment(kv))] @@ Opt("portnumber", kv, "usersPort") >>

\* dependency holds the identity of the Deployment object
services(kv) ==
    << [name |-> "cart-redis", service |-> "cart-redis", portname |-> "redis-cart",
            dependency |-> UrnOf(cartRedisDeployment)] @@ ("portnumber" :> 6379),
       [name |-> "cart", service |-> "cart", portname |-> "http-cart",
            dependency |-> UrnOf(cartDeployment(kv))] @@ Opt("portnumber", kv, "cartPort"),
       [name |-> "catalog-mongo", service |-> "catalog-db", portname |-> "mongo-catalog",
            dependency |-> UrnOf(catalogMongoDeployment)] @@ ("portnumber" :> 27017),
       [name |-> "catalog", service |-> "catalog", portname |-> "http-catalog",
            dependency |-> UrnOf(catalogDeployment(kv))] @@ Opt("portnumber", kv, "catalogPort"),
       [name |-> "payment", service |-> "payment", portname |-> "http-payment",
            dependency |-> UrnOf(paymentDeployment(kv))] @@ Opt("portnumber", kv, "paymentPort"),
       [name |-> "order-postgres", service |-> "order-db", portname |-> "postgres-order",
            dependency |-> UrnOf(orderPostgresDeployment)] @@ ("portnumber" :> 5432),
       [name |-> "order", service |-> "order", portname |-> "http-order",
            dependency |-> UrnOf(orderDeployment(kv))] @@ Opt("portnumber", kv, "orderPort"),
       [name |-> "users-mongo", service |-> "users-mongo", portname |-> "mongo-users",
            dependency |-> UrnOf(usersMongoDeployment)] @@ ("portnumber" :> 27017),
       [name |-> "users-redis", service |-> "users-redis", portname |-> "redis-users",
            dependency |-> UrnOf(usersRedisDeployment)] @@ ("portnumber" :> 6379),
       [name |-> "users", service |-> "users", portname |-> "http-users",
            dependency |-> UrnOf(usersDeployment(kv))] @@ Opt("portnumber", kv, "usersPort") >>

\* Service with the type of posService
Service_nodeExposed(service) ==
    [ kind |-> "Service",
      logical |-> service.name \o "-service",
      metadata |->
        [ name |-> service.name,
          labels |-> [app |-> "acmefit", service |-> service.service] ],
      spec |->
        [ type |-> "NodePort",
          ports |-> << Opt("port", service, "portnumber")
                        @@ [name |-> service.portname, protocol |-> "TCP"] >>,
          selector |-> [app |-> "acmefit", service |-> service.service] ],
      dependsOn |-> {service.dependency} ]

\* Service with the logical name taken from the service label
Service_logicalByLabel(service) ==
    [ kind |-> "Service",
      logical |-> service.service \o "-service",
      metadata |->
        [ name |-> service.name,
          labels |-> [app |-> "acmefit", service |-> service.service] ],
      spec |->
        [ ports |-> << Opt("port", service, "portnumber")
                        @@ [name |-> service.portname, protocol |-> "TCP"] >>,
          selector |-> [app |-> "acmefit", service |-> service.service] ],
      dependsOn |-> {service.dependency} ]

\* Service selecting by the name of the entry instead of its service label
Service_selectByName(service) ==
    [ kind |-> "Service",
      logical |-> service.name \o "-service",
      metadata |->
        [ name |-> service.name,
          labels |-> [app |-> "acmefit", service |-> service.service] ],
      spec |->
        [ ports |-> << Opt("port", service, "portnumber")
                        @@ [name |-> service.portname, protocol |-> "TCP"] >>,
          selector |-> [app |-> "acmefit", service |-> service.name] ],
      dependsOn |-> {service.dependency} ]

\* Service constructed without the dependsOn option
Service_noDependsOn(service) ==
    [ kind |-> "Service",
      logical |-> service.name \o "-service",
      metadata |->
        [ name |-> service.name,
          labels |-> [app |-> "acmefit", service |-> service.service] ],
      spec |->
        [ ports |-> << Opt("port", service, "portnumber")
                        @@ [name |-> service.portname, protocol |-> "TCP"] >>,
          selector |-> [app |-> "acmefit", service |-> service.service] ],
      dependsOn |-> {} ]

\* the Service constructed in the loop over services
Service(service) ==
    [ kind |-> "Service",
      logical |-> service.name \o "-service",
      metadata |->
        [ name |-> service.name,
          labels |-> [app |-> "acmefit", service |-> service.service] ],
      spec |->
        [ ports |-> << Opt("port", service, "portnumber")
                        @@ [name |-> service.portname, protocol |-> "TCP"] >>,
          selector |-> [app |-> "acmefit", service |-> service.service] ],
      dependsOn |-> {service.dependency} ]

\* frontendLoadbalancerConfig without its targetPort
frontendLoadbalancerConfig_noTargetPort(kv) ==
    [port |-> 80, name |-> "http-frontend", protocol |-> "TCP"]

frontendLoadbalancerConfig(kv) ==
    [port |-> 80, name |-> "http-frontend", protocol |-> "TCP"]
        @@ Opt("targetPort", kv, "frontendPort")

\* frontendNodeportConfig with the node port as targetPort too
frontendNodeportConfig_targetsNodeport(kv) ==
    [port |-> 80, name |-> "http-frontend", protocol |-> "TCP"]
        @@ Opt("targetPort", kv, "frontendNodeport")
        @@ Opt("nodePort", kv, "frontendNodeport")

frontendNodeportConfig(kv) ==
    [port |-> 80, name |-> "http-frontend", protocol |-> "TCP"]
        @@ Opt("targetPort", kv, "frontendPort")
        @@ Opt("nodePort", kv, "frontendNodeport")

frontendDeployment(kv) ==
    [ kind |-> "Deployment",
      logical |-> "frontend-deployment",
      metadata |-> [name |-> "frontend", labels |-> [app |-> "acmefit", service |-> "frontend"]],
      spec |->
        [ selector |-> [matchLabels |-> [app |-> "acmefit", service |-> "frontend"]],
          replicas |-> 1,
          strategy |-> [type |-> "Recreate"],
          template |->
            [ metadata |-> [labels |-> [app |-> "acmefit", service |-> "frontend"]],
              spec |->
                [ containers |-> <<
                    [ image |-> "gcr.io/vmwarecloudadvocacy/acmeshop-front-end:latest",
                      imagePullPolicy |-> "Always",
                      name |-> "frontend",
                      env |-> <<
                        Value("FRONTEND_PORT", toString(kv.frontendPort)),
                        Value("USERS_HOST", "users"),
                        Value("CATALOG_HOST", "catalog"),
                        Value("ORDER_HOST", "order"),
                        Value("CART_HOST", "cart"),
                        Value("USERS_PORT", toString(kv.usersPort)),
                        Value("CATALOG_PORT", toString(kv.catalogPort)),
                        Value("ORDER_PORT", toString(kv.orderPort)),
                        Value("CART_PORT", toString(kv.cartPort)),
                        Value("JAEGER_AGENT_HOST", "localhost"),
                        Value("JAGER_AGENT_PORT", "6832") >>,
                      ports |-> << [name |-> "frontend", containerPort |-> kv.frontendPort] >> ] >> ] ] ],
      dependsOn |-> {} ]

\* frontendService with the node port entry in both modes
frontendService_alwaysNodeportConfig(kv) ==
    [ kind |-> "Service",
      logical |-> "frontend-service",
      metadata |-> [name |-> "frontend", labels |-> [app |-> "acmefit", service |-> "frontend"]],
      spec |->
        [ type |-> IF Truthy(kv, "isSingleNode") THEN "NodePort" ELSE "LoadBalancer",
          ports |-> << frontendNodeportConfig(kv) >>,
          selector |-> [app |-> "acmefit", service |-> "frontend"] ],
      dependsOn |-> {UrnOf(frontendDeployment(kv))} ]

frontendService(kv) ==
    [ kind |-> "Service",
      logical |-> "frontend-service",
      metadata |-> [name |-> "frontend", labels |-> [app |-> "acmefit", service |-> "frontend"]],
      spec |->
        [ type |-> IF Truthy(kv, "isSingleNode") THEN "NodePort" ELSE "LoadBalancer",
          ports |-> << IF Truthy(kv, "isSingleNode")
                         THEN frontendNodeportConfig(kv)
                         ELSE frontendLoadbalancerConfig(kv) >>,
          selector |-> [app |-> "acmefit", service |-> "frontend"] ],
      dependsOn |-> {UrnOf(frontendDeployment(kv))} ]

\* posDeployment with no update strategy declared
posDeployment_noStrategy ==
    [ kind |-> "Deployment",
      logical |-> "pos-deployment",
      metadata |-> [name |-> "pos", labels |-> [app |-> "acmefit", service |-> "pos"]],
      spec |->
        [ selector |-> [matchLabels |-> [app |-> "acmefit", service |-> "pos"]],
          replicas |-> 1,
          template |->
            [ metadata |-> [labels |-> [app |-> "acmefit", service |-> "pos"]],
              spec |->
                [ containers |-> <<
                    [ image |-> "gcr.io/vmwarecloudadvocacy/acmeshop-pos:v0.1.0-beta",
                      imagePullPolicy |-> "Always",
                      name |-> "pos",
                      env |-> <<
                        Value("HTTP_PORT", "7777"),
                        Value("DATASTORE", "remote"),
                        Value("FRONTEND_HOST", "frontend.default.svc.cluster.local") >>,
                      ports |-> << [name |-> "pos", containerPort |-> 7777] >> ] >> ] ] ],
      dependsOn |-> {} ]

posDeployment ==
    [ kind |-> "Deployment",
      logical |-> "pos-deployment",
      metadata |-> [name |-> "pos", labels |-> [app |-> "acmefit", service |-> "pos"]],
      spec |->
        [ selector |-> [matchLabels |-> [app |-> "acmefit", service |-> "pos"]],
          replicas |-> 1,
          strategy |-> [type |-> "Recreate"],
          template |->
            [ metadata |-> [labels |-> [app |-> "acmefit", service |-> "pos"]],
              spec |->
                [ containers |-> <<
                    [ image |-> "gcr.io/vmwarecloudadvocacy/acmeshop-pos:v0.1.0-beta",
                      imagePullPolicy |-> "Always",
                      name |-> "pos",
                      env |-> <<
                        Value("HTTP_PORT", "7777"),
                        Value("DATASTORE", "remote"),
                        Value("FRONTEND_HOST", "frontend.default.svc.cluster.local") >>,
                      ports |-> << [name |-> "pos", containerPort |-> 7777] >> ] >> ] ] ],
      dependsOn |-> {} ]

\* posService exposed like the frontend Service
posService_conditional(kv) ==
    [ kind |-> "Service",
      logical |-> "pos-service",
      metadata |-> [name |-> "pos", labels |-> [app |-> "acmefit", service |-> "pos"]],
      spec |->
        [ type |-> IF Truthy(kv, "isSingleNode") THEN "NodePort" ELSE "LoadBalancer",
          ports |-> << [port |-> 7777, name |-> "http-pos", protocol |-> "TCP", targetPort |-> 7777]
                         @@ Opt("nodePort", kv, "posNodeport") >>,
          selector |-> [app |-> "acmefit", service |-> "pos"] ],
      dependsOn |-> {UrnOf(posDeployment)} ]

posService(kv) ==
    [ kind |-> "Service",
      logical |-> "pos-service",
      metadata |-> [name |-> "pos", labels |-> [app |-> "acmefit", service |-> "pos"]],
      spec |->
        [ type |-> "NodePort",
          ports |-> << [port |-> 7777, name |-> "http-pos", protocol |-> "TCP", targetPort |-> 7777]
                         @@ Opt("nodePort", kv, "posNodeport") >>,
          selector |-> [app |-> "acmefit", service |-> "pos"] ],
      dependsOn |-> {UrnOf(posDeployment)} ]

----------------------------------------------------------------------------
(* The program: index.ts, statement by statement *)

Init ==
    /\ hasKubevars \in BOOLEAN
    /\ kubeVars \in (IF hasKubevars THEN Configs ELSE {Empty})
    /\ pc = "kubeVars"
    /\ idx = 1
    /\ graph = <<>>
    /\ outputs = Empty
    /\ inflight = {}
    /\ created = {}
    /\ args = Empty

\* A constructor call.  Its arguments are evaluated first: reading a property
\* of an undefined field (kubeVars.cartPort.toString()) or encoding an
\* undefined password (Buffer.from(undefined)) throws a TypeError, which ends
\* the program with the resources registered so far.
New(at, next, needs, res) ==
    /\ pc = at
    /\ IF needs \subseteq DOMAIN kubeVars
         THEN graph' = Append(graph, res) /\ pc' = next
         ELSE graph' = graph /\ pc' = "failed"
    /\ UNCHANGED <<args, hasKubevars, kubeVars, idx, outputs, inflight, created>>

\* config.requireObject<Data>("kubevars") throws when the key is not set and
\* otherwise returns the parsed object as it is
RequireObject ==
    /\ pc = "kubeVars"
    /\ pc' = IF hasKubevars THEN "passwords" ELSE "failed"
    /\ UNCHANGED <<args, hasKubevars, kubeVars, idx, graph, outputs, inflight, created>>


\* the passwords loop with a password drawn afresh for every Secret
PasswordsLoop_generated ==
    /\ pc = "passwords"
    /\ IF "dataStorePassword" \in DOMAIN kubeVars
         THEN /\ \E pw \in {kubeVars.dataStorePassword} \cup Alternatives("dataStorePassword") :
                    graph' = Append(graph, [Secret(passwords[idx], kubeVars)
                                              EXCEPT !.data.password = toBase64(pw)])
              /\ IF idx < Len(passwords)
                   THEN pc' = pc /\ idx' = idx + 1
                   ELSE pc' = "catalogConfigMap" /\ idx' = 1
         ELSE graph' = graph /\ pc' = "failed" /\ idx' = idx
    /\ UNCHANGED <<args, hasKubevars, kubeVars, outputs, inflight, created>>

\* one iteration of: for (let password of passwords)
PasswordsLoop ==
    /\ pc = "passwords"
    /\ IF "dataStorePassword" \in DOMAIN kubeVars
         THEN /\ graph' = Append(graph, Secret(passwords[idx], kubeVars))
              /\ IF idx < Len(passwords)
                   THEN pc' = pc /\ idx' = idx + 1
                   ELSE pc' = "catalogConfigMap" /\ idx' = 1
         ELSE graph' = graph /\ pc' = "failed" /\ idx' = idx
    /\ UNCHANGED <<args, hasKubevars, kubeVars, outputs, inflight, created>>

NewCatalogConfigMap ==
    /\ New("catalogConfigMap", "usersConfigMap", {}, catalogConfigMap)

NewUsersConfigMap ==
    /\ New("usersConfigMap", "cartRedisDeployment", {}, usersConfigMap)

NewCartRedisDeployment ==
    /\ New("cartRedisDeployment", "cartDeployment", {}, cartRedisDeployment)

NewCartDeployment ==
    /\ New("cartDeployment", "catalogMongoDeployment",
        {"cartPort", "usersPort"}, cartDeployment(kubeVars))

NewCatalogMongoDeployment ==
    /\ New("catalogMongoDeployment", "catalogDeployment", {}, catalogMongoDeployment)

NewCatalogDeployment ==
    /\ New("catalogDeployment", "paymentDeployment",
        {"catalogPort", "usersPort"}, catalogDeployment(kubeVars))

NewPaymentDeployment ==
    /\ New("paymentDeployment", "orderPostgresDeployment",
        {"paymentPort", "usersPort"}, paymentDeployment(kubeVars))

NewOrderPostgresDeployment ==
    /\ New("orderPostgresDeployment", "orderDeployment", {}, orderPostgresDeployment)

NewOrderDeployment ==
    /\ New("orderDeployment", "usersMongoDeployment",
        {"orderPort", "paymentPort", "usersPort"}, orderDeployment(kubeVars))

NewUsersMongoDeployment ==
    /\ New("usersMongoDeployment", "usersRedisDeployment", {}, usersMongoDeployment)

NewUsersRedisDeployment ==
    /\ New("usersRedisDeployment", "usersDeployment", {}, usersRedisDeployment)

NewUsersDeployment ==
    /\ New("usersDeployment", "services", {"usersPort"}, usersDeployment(kubeVars))

\* one iteration of: for (let service of services)
ServicesLoop ==
    /\ pc = "services"
    /\ graph' = Append(graph, Service(services(kubeVars)[idx]))
    /\ IF idx < Len(services(kubeVars))
         THEN pc' = pc /\ idx' = idx + 1
         ELSE pc' = "frontendDeployment" /\ idx' = 1
    /\ UNCHANGED <<args, hasKubevars, kubeVars, outputs, inflight, created>>

NewFrontendDeployment ==
    /\ New("frontendDeployment", "frontendService",
        {"frontendPort", "usersPort", "catalogPort", "orderPort", "cartPort"},
        frontendDeployment(kubeVars))

NewFrontendService ==
    /\ New("frontendService", "posDeployment", {}, frontendService(kubeVars))

NewPosDeployment ==
    /\ New("posDeployment", "posService", {}, posDeployment)

NewPosService ==
    /\ New("posService", "exports", {}, posService(kubeVars))

\* what String(o) gives for a pulumi.Output o
OutputToString == "Calling [toString] on an [Output<T>] is not supported."


\* frontendIP with the Service's port in place of its nodePort
frontendIP_servicePort(kv) ==
    IF Truthy(kv, "isSingleNode")
      THEN [known |-> TRUE,
            value |-> Concat("http://localhost:", frontendNodeportConfig(kv), "port")]
      ELSE [known |-> TRUE, value |-> "http://" \o OutputToString]

\* export const frontendIP: a plain string in both branches, since `+` on an
\* Output converts it with toString().
frontendIP(kv) ==
    IF Truthy(kv, "isSingleNode")
      THEN [known |-> TRUE,
            value |-> Concat("http://localhost:", frontendNodeportConfig(kv), "nodePort")]
      ELSE [known |-> TRUE, value |-> "http://" \o OutputToString]

\* export const posIP: an Output applied to posService.spec.ports[0].nodePort,
\* known once the engine has created posService
posIP(kv) == [known |-> FALSE, resource |-> UrnOf(posService(kv))]

Exports ==
    /\ pc = "exports"
    /\ outputs' = [frontendIP |-> frontendIP(kubeVars), posIP |-> posIP(kubeVars)]
    /\ pc' = "done"
    /\ UNCHANGED <<args, hasKubevars, kubeVars, idx, graph, inflight, created>>

Next ==
    \/ RequireObject
    \/ PasswordsLoop
    \/ NewCatalogConfigMap
    \/ NewUsersConfigMap
    \/ NewCartRedisDeployment
    \/ NewCartDeployment
    \/ NewCatalogMongoDeployment
    \/ NewCatalogDeployment
    \/ NewPaymentDeployment
    \/ NewOrderPostgresDeployment
    \/ NewOrderDeployment
    \/ NewUsersMongoDeployment
    \/ NewUsersRedisDeployment
    \/ NewUsersDeployment
    \/ ServicesLoop
    \/ NewFrontendDeployment
    \/ NewFrontendService
    \/ NewPosDeployment
    \/ NewPosService
    \/ Exports

Spec == Init /\ [][Next]_vars

----------------------------------------------------------------------------
(* The component of secrets.ts: new ACMESecrets(passwords, secretValue).   *)
(* index.ts does not construct it; its callers are modelled by the          *)
(* arguments they may pass.                                                 *)

\* the method toBase64 of the class, which has the body of the function of index.ts
ACMESecrets_toBase64(s) == toBase64(s)

\* super("pulumi:acmefitness:secret", "acmefitness-datastore-passwords", {}, opts)
ACMESecrets_super ==
    [ kind |-> "pulumi:acmefitness:secret",
      logical |-> "acmefitness-datastore-passwords",
      dependsOn |-> {} ]

\* the Secret of the component under the name of the component
ACMESecrets_Secret_componentName(password, secretValue) ==
    [ kind |-> "Secret",
      logical |-> password,
      metadata |-> [name |-> ACMESecrets_super.logical, namespace |-> "default"],
      type |-> "Opaque",
      data |-> [password |-> ACMESecrets_toBase64(secretValue)],
      parent |-> UrnOf(ACMESecrets_super),
      dependsOn |-> {} ]

\* the Secret that one call of the forEach callback constructs
ACMESecrets_Secret(password, secretValue) ==
    [ kind |-> "Secret",
      logical |-> password,
      metadata |-> [name |-> password, namespace |-> "default"],
      type |-> "Opaque",
      data |-> [password |-> ACMESecrets_toBase64(secretValue)],
      parent |-> UrnOf(ACMESecrets_super),
      dependsOn |-> {} ]

\* the lists of up to MaxNames different names out of passwords
NameLists ==
    UNION { { l \in [1..n -> { passwords[i] : i \in 1..Len(passwords) }] :
                \A i, j \in 1..n : l[i] = l[j] => i = j } : n \in 0..MaxNames }

\* the secret values: the passwords of the configurations and the empty string
SecretValues == {HelloWorld, <<>>} \cup Alternatives("dataStorePassword")

\* a call of the constructor from a program that has registered nothing yet
InitACMESecrets ==
    /\ hasKubevars = FALSE
    /\ kubeVars = Empty
    /\ pc = "ACMESecrets"
    /\ idx = 1
    /\ graph = <<>>
    /\ outputs = Empty
    /\ inflight = {}
    /\ created = {}
    /\ args \in [passwords : NameLists, secretValue : SecretValues]

\* the super call registers the component
ACMESecretsSuper ==
    /\ pc = "ACMESecrets"
    /\ graph' = Append(graph, ACMESecrets_super)
    /\ pc' = IF Len(args.passwords) = 0 THEN "constructed" ELSE "forEach"
    /\ UNCHANGED <<args, hasKubevars, kubeVars, idx, outputs, inflight, created>>

\* one call of the callback of passwords.forEach
ACMESecretsForEach ==
    /\ pc = "forEach"
    /\ graph' = Append(graph, ACMESecrets_Secret(args.passwords[idx], args.secretValue))
    /\ IF idx < Len(args.passwords)
         THEN pc' = pc /\ idx' = idx + 1
         ELSE pc' = "constructed" /\ idx' = 1
    /\ UNCHANGED <<args, hasKubevars, kubeVars, outputs, inflight, created>>

NextSecrets == Next \/ ACMESecretsSuper \/ ACMESecretsForEach

\* the Secrets of either origin: a run of index.ts or a call of the constructor
SpecSecrets == (Init \/ InitACMESecrets) /\ [][NextSecrets]_vars

----------------------------------------------------------------------------
(* The engine: it creates the registered resources once the program has    *)
(* run, a resource only after every resource of its dependsOn, at most      *)
(* MaxParallel at a time, taking them up in the order of registration and   *)
(* completing them in any order.                                            *)

Registered == { UrnOf(graph[i]) : i \in 1..Len(graph) }

Resource(u) == graph[CHOOSE i \in 1..Len(graph) : UrnOf(graph[i]) = u]

Startable(i) ==
    /\ UrnOf(graph[i]) \notin inflight \cup created
    /\ graph[i].dependsOn \subseteq created

StartCreate ==
    /\ pc \in {"done", "failed"}
    /\ Cardinality(inflight) < MaxParallel
    /\ \E i \in 1..Len(graph) :
         /\ Startable(i)
         /\ \A j \in 1..(i - 1) : ~Startable(j)
         /\ inflight' = inflight \cup {UrnOf(graph[i])}
    /\ UNCHANGED <<args, hasKubevars, kubeVars, pc, idx, graph, outputs, created>>

\* the value of an Output that waits for resource u, once u is created
Resolve(o, u) ==
    IF ~o.known /\ o.resource = u
      THEN [known |-> TRUE,
            value |-> Concat("http://localhost:", Resource(u).spec.ports[1], "nodePort")]
      ELSE o

FinishCreate ==
    /\ \E u \in inflight :
         /\ inflight' = inflight \ {u}
         /\ created' = created \cup {u}
         /\ outputs' = [n \in DOMAIN outputs |-> Resolve(outputs[n], u)]
    /\ UNCHANGED <<args, hasKubevars, kubeVars, pc, idx, graph>>

NextReconcile == Next \/ StartCreate \/ FinishCreate

\* the README's configuration on a single node and on a cluster, each also
\* with another node port, and one without frontendPort, whose program fails
\* after the services loop
ReconcileConfigs ==
    { DefaultConfig,
      [DefaultConfig EXCEPT !.isSingleNode = FALSE],
      [DefaultConfig EXCEPT !.frontendNodeport = 30080],
      [DefaultConfig EXCEPT !.isSingleNode = FALSE, !.posNodeport = 30080],
      Drop(DefaultConfig, "frontendPort") }

InitReconcile == Init /\ hasKubevars /\ kubeVars \in ReconcileConfigs

SpecReconcile == InitReconcile /\ [][NextReconcile]_vars

\* the program runs on to its end, the engine takes up a resource that can be
\* started, and every creation under way completes; on the README's
\* configuration in both modes and on the one whose program fails
InitReconcileFair ==
    /\ InitReconcile
    /\ kubeVars \in { DefaultConfig,
                      [DefaultConfig EXCEPT !.isSingleNode = FALSE],
                      Drop(DefaultConfig, "frontendPort") }

SpecReconcileFair ==
    /\ InitReconcileFair
    /\ [][NextReconcile]_vars
    /\ WF_vars(Next)
    /\ WF_vars(StartCreate)
    /\ WF_vars(FinishCreate)

----------------------------------------------------------------------------
(* Reading the graph *)

Indices(kind) == { i \in 1..Len(graph) : graph[i].kind = kind }

Has(kind, logical) == Urn(kind, logical) \in Registered

Get(kind, logical) == Resource(Urn(kind, logical))

Container(d) == d.spec.template.spec.containers[1]

PodLabels(d) == d.spec.template.metadata.labels

\* the names of the Secrets a Deployment's environment refers to
SecretRefs(d) ==
    { Container(d).env[k].valueFrom.secretKeyRef :
        k \in { j \in 1..Len(Container(d).env) : "valueFrom" \in DOMAIN Container(d).env[j] } }

IsSingleNode == "isSingleNode" \in DOMAIN kubeVars /\ kubeVars.isSingleNode = TRUE

IsCluster == "isSingleNode" \in DOMAIN kubeVars /\ kubeVars.isSingleNode = FALSE

----------------------------------------------------------------------------
(* Properties of the registered resources *)

\* C1: once the frontend Service is registered, isSingleNode = true gives it
\* type NodePort and a single port entry whose nodePort is
\* config.frontendNodeport; isSingleNode = false gives it type LoadBalancer and
\* a single port entry without a nodePort field.
C1_FrontendExposure ==
    Has("Service", "frontend-service") =>
        LET s == Get("Service", "frontend-service").spec IN
        /\ Len(s.ports) = 1
        /\ IsSingleNode =>
             /\ s.type = "NodePort"
             /\ "frontendNodeport" \in DOMAIN kubeVars =>
                  /\ "nodePort" \in DOMAIN s.ports[1]
                  /\ s.ports[1].nodePort = kubeVars.frontendNodeport
        /\ IsCluster =>
             /\ s.type = "LoadBalancer"
             /\ "nodePort" \notin DOMAIN s.ports[1]

\* C1 witness: a build on a cluster with a frontendNodeport configured has
\* registered the frontend Service
C1_Witness ==
    /\ Has("Service", "frontend-service")
    /\ Valid(kubeVars)
    /\ IsCluster
    /\ kubeVars.frontendNodeport = 30430
    /\ Get("Service", "frontend-service").spec.type = "LoadBalancer"

\* C2: once the point-of-sale Service is registered it has type NodePort and
\* its nodePort is config.posNodeport, whatever isSingleNode is.
C2_PosAlwaysNodePort ==
    Has("Service", "pos-service") =>
        LET s == Get("Service", "pos-service").spec IN
        /\ s.type = "NodePort"
        /\ Len(s.ports) = 1
        /\ "posNodeport" \in DOMAIN kubeVars =>
             /\ "nodePort" \in DOMAIN s.ports[1]
             /\ s.ports[1].nodePort = kubeVars.posNodeport

\* C2 witness: the point-of-sale Service of a build on a cluster
C2_Witness ==
    /\ Has("Service", "pos-service")
    /\ Valid(kubeVars)
    /\ IsCluster
    /\ Get("Service", "pos-service").spec.ports[1].nodePort = kubeVars.posNodeport

AppWorkloads == {"cart", "catalog", "order", "payment", "users", "frontend", "pos"}

BothRegistered(w) ==
    Has("Deployment", w \o "-deployment") /\ Has("Service", w \o "-service")

ContainerPort(w) == Container(Get("Deployment", w \o "-deployment")).ports[1].containerPort

ServicePort(w) == Get("Service", w \o "-service").spec.ports[1]

\* C3 as stated: for every application workload the containerPort of its
\* container equals the port of the Service in front of it.
C3_ContainerPortIsServicePort ==
    \A w \in AppWorkloads :
        BothRegistered(w) => ContainerPort(w) = ServicePort(w).port

\* C3 amended: for cart, catalog, order, payment, users and point-of-sale the
\* containerPort equals the Service's port; the frontend Service has port 80
\* and it is its targetPort that equals the frontend's containerPort.
C3_ContainerPortIsTargetOfService ==
    \A w \in AppWorkloads :
        BothRegistered(w) =>
            IF w = "frontend"
              THEN /\ ServicePort(w).port = 80
                   /\ ServicePort(w).targetPort = ContainerPort(w)
              ELSE ServicePort(w).port = ContainerPort(w)

\* C3 witness: a complete build whose frontend port is not 80 and whose users
\* port is not the README's
C3_Witness ==
    /\ pc = "done"
    /\ \A w \in AppWorkloads : BothRegistered(w)
    /\ ContainerPort("frontend") = 3000
    /\ ContainerPort("users") = 8080

\* C4: the selector of every registered Service equals the pod-template labels
\* of the Deployment it depends on, and it depends on exactly one Deployment.
C4_SelectorMatchesPodLabels ==
    \A i \in Indices("Service") :
        /\ Cardinality(graph[i].dependsOn) = 1
        /\ \A d \in graph[i].dependsOn :
             /\ d \in Registered
             /\ Resource(d).kind = "Deployment"
             /\ graph[i].spec.selector = PodLabels(Resource(d))

\* C4 witness: all 12 Services are registered, the one of catalog-mongo among
\* them, whose labels differ from its name
C4_Witness ==
    /\ Cardinality(Indices("Service")) = 12
    /\ Get("Service", "catalog-mongo-service").spec.selector.service = "catalog-db"

\* C5: every secretKeyRef of a registered Deployment names a registered Secret,
\* one of the passwords list, and a key that this Secret's data defines.
C5_NoDanglingSecretRef ==
    \A i \in Indices("Deployment") :
        \A ref \in SecretRefs(graph[i]) :
            /\ \E k \in 1..Len(passwords) : passwords[k] = ref.name
            /\ \E j \in Indices("Secret") :
                 /\ graph[j].metadata.name = ref.name
                 /\ ref.key \in DOMAIN graph[j].data

\* C5 witness: the users Deployment, which refers to two Secrets, is registered
C5_Witness ==
    /\ Has("Deployment", "users-deployment")
    /\ Cardinality(SecretRefs(Get("Deployment", "users-deployment"))) = 2

----------------------------------------------------------------------------
(* Properties of the order of creation *)

\* C6 as stated: no Deployment that refers to a Secret through secretKeyRef is
\* created by the engine before that Secret is created.
C6_SecretCreatedBeforeWorkload ==
    \A u \in created :
        Resource(u).kind = "Deployment" =>
            \A ref \in SecretRefs(Resource(u)) : Urn("Secret", ref.name) \in created

\* the names of the ConfigMaps a Deployment mounts
Volumes(d) ==
    IF "volumes" \in DOMAIN d.spec.template.spec THEN d.spec.template.spec.volumes ELSE <<>>

ConfigMapMounts(d) ==
    { Volumes(d)[k].configMap.name :
        k \in { j \in 1..Len(Volumes(d)) : "configMap" \in DOMAIN Volumes(d)[j] } }

Started == inflight \cup created

\* C7: catalog-mongo and users-mongo each mount one ConfigMap; every Deployment
\* that mounts a ConfigMap names in its dependsOn a registered ConfigMap whose
\* metadata.name is the mounted name, and the engine does not start creating
\* the Deployment before that ConfigMap is created.
C7_ConfigMapCreatedBeforeWorkload ==
    /\ Has("Deployment", "catalogmongo-deployment") =>
         ConfigMapMounts(Get("Deployment", "catalogmongo-deployment")) = {"catalog-initdb-config"}
    /\ Has("Deployment", "usersmongo-deployment") =>
         ConfigMapMounts(Get("Deployment", "usersmongo-deployment")) = {"users-initdb-config"}
    /\ \A i \in Indices("Deployment") :
         \A n \in ConfigMapMounts(graph[i]) :
            \E c \in graph[i].dependsOn :
                /\ c \in Registered
                /\ Resource(c).kind = "ConfigMap"
                /\ Resource(c).metadata.name = n
                /\ UrnOf(graph[i]) \in Started => c \in created

\* C7 witness: the engine has created both mongo Deployments
C7_Witness ==
    /\ Urn("Deployment", "catalogmongo-deployment") \in created
    /\ Urn("Deployment", "usersmongo-deployment") \in created

\* C8: every registered Service names in its dependsOn the registered
\* Deployment whose pod labels its selector matches, and the engine does not
\* start creating the Service before that Deployment is created.
C8_WorkloadCreatedBeforeService ==
    \A i \in Indices("Service") :
        \E d \in graph[i].dependsOn :
            /\ d \in Registered
            /\ Resource(d).kind = "Deployment"
            /\ PodLabels(Resource(d)) = graph[i].spec.selector
            /\ UrnOf(graph[i]) \in Started => d \in created

\* C8 witness: the engine has created all 12 Services
C8_Witness ==
    Cardinality({ u \in created : u[1] = "Service" }) = 12

\* C9 as stated: when the configuration lacks a required field the program
\* fails without having registered any resource.
C9_FailsBeforeAnyResource ==
    (~hasKubevars \/ ~Valid(kubeVars)) => (graph = <<>> /\ pc # "done")

----------------------------------------------------------------------------
(* Properties of two builds *)

\* the graph of a complete run of the program with configuration kv
build(kv) ==
    [k \in 1..Len(passwords) |-> Secret(passwords[k], kv)]
        \o << catalogConfigMap, usersConfigMap, cartRedisDeployment,
              cartDeployment(kv), catalogMongoDeployment, catalogDeployment(kv),
              paymentDeployment(kv), orderPostgresDeployment, orderDeployment(kv),
              usersMongoDeployment, usersRedisDeployment, usersDeployment(kv) >>
        \o [k \in 1..Len(services(kv)) |-> Service(services(kv)[k])]
        \o << frontendDeployment(kv), frontendService(kv), posDeployment,
              posService(kv) >>

Urns(g) == { UrnOf(g[i]) : i \in 1..Len(g) }

Lookup(g, u) == g[CHOOSE i \in 1..Len(g) : UrnOf(g[i]) = u]

\* the resources that one graph has and the other has not or describes differently
Changed(g1, g2) ==
    { u \in Urns(g1) \cup Urns(g2) :
        \/ u \notin Urns(g1) \cap Urns(g2)
        \/ Lookup(g1, u) # Lookup(g2, u) }

\* the workload whose own port a configuration field is
Owner(f) ==
    CASE f = "frontendPort" -> "frontend"
      [] f = "usersPort" -> "users"
      [] f = "catalogPort" -> "catalog"
      [] f = "orderPort" -> "order"
      [] f = "cartPort" -> "cart"
      [] f = "paymentPort" -> "payment"

\* the workloads that are given the port to address its owner
Consumers(f) ==
    CASE f = "usersPort" -> {"cart", "catalog", "payment", "order", "frontend"}
      [] f = "paymentPort" -> {"order"}
      [] f \in {"cartPort", "catalogPort", "orderPort"} -> {"frontend"}
      [] OTHER -> {}

OwnerPair(f) ==
    { Urn("Deployment", Owner(f) \o "-deployment"), Urn("Service", Owner(f) \o "-service") }

OtherValues(f, kv) == ({DefaultConfig[f]} \cup Alternatives(f)) \ {kv[f]}

\* C10 as stated: a complete build and the build of the configuration that
\* differs in one application port differ in exactly the Deployment and the
\* Service of the workload that owns the port.
C10_OnlyOwnerPairChanges ==
    (pc = "done" /\ Valid(kubeVars)) =>
        \A f \in PortFields : \A v \in OtherValues(f, kubeVars) :
            Changed(graph, build([kubeVars EXCEPT ![f] = v])) = OwnerPair(f)

\* C10 amended: they differ in exactly the Deployment and the Service of the
\* owner and the Deployments of the workloads that are given the port to
\* address the owner (usersPort: cart, catalog, payment, order, frontend;
\* paymentPort: order; cartPort, catalogPort, orderPort: frontend).
C10_OwnerPairAndConsumersChange ==
    (pc = "done" /\ Valid(kubeVars)) =>
        \A f \in PortFields : \A v \in OtherValues(f, kubeVars) :
            Changed(graph, build([kubeVars EXCEPT ![f] = v]))
                = OwnerPair(f) \cup { Urn("Deployment", w \o "-deployment") : w \in Consumers(f) }

\* C10 witness: the complete build of the README's configuration with another
\* users port, which differs from the README's build in seven resources
C10_Witness ==
    /\ pc = "done"
    /\ kubeVars = [DefaultConfig EXCEPT !.usersPort = 8080]
    /\ Cardinality(Changed(graph, build(DefaultConfig))) = 7

\* the configuration that differs from kv in the exposure mode only
Flip(kv) == [kv EXCEPT !.isSingleNode = ~kv.isSingleNode]

\* a record without one of its fields
Without(r, k) == [f \in DOMAIN r \ {k} |-> r[f]]

\* C11: a complete build and the build of the configuration with the other
\* value of isSingleNode differ in the frontend Service and in nothing else
\* (every Secret, ConfigMap, Deployment, the other eleven Services and every
\* dependsOn are equal); the two frontend Services have the same metadata,
\* selector and dependsOn and the same port entry apart from nodePort, and
\* differ in their type and in having a nodePort.
C11_OnlyFrontendServiceChanges ==
    (pc = "done" /\ Valid(kubeVars)) =>
        LET other == build(Flip(kubeVars))
            a == Lookup(graph, Urn("Service", "frontend-service"))
            b == Lookup(other, Urn("Service", "frontend-service"))
        IN  /\ Changed(graph, other) = {Urn("Service", "frontend-service")}
            /\ Urns(graph) = Urns(other)
            /\ a.metadata = b.metadata
            /\ a.dependsOn = b.dependsOn
            /\ a.spec.selector = b.spec.selector
            /\ DOMAIN a.spec = DOMAIN b.spec
            /\ Len(a.spec.ports) = 1 /\ Len(b.spec.ports) = 1
            /\ Without(a.spec.ports[1], "nodePort") = Without(b.spec.ports[1], "nodePort")
            /\ a.spec.type # b.spec.type
            /\ ("nodePort" \in DOMAIN a.spec.ports[1]) # ("nodePort" \in DOMAIN b.spec.ports[1])

\* C11 witness: a complete cluster build whose frontend Service is a
\* LoadBalancer, while the single-node build of the same ports has a NodePort
C11_Witness ==
    /\ pc = "done" /\ Valid(kubeVars) /\ IsCluster
    /\ Get("Service", "frontend-service").spec.type = "LoadBalancer"
    /\ Lookup(build(Flip(kubeVars)), Urn("Service", "frontend-service")).spec.type = "NodePort"
    /\ Get("Service", "pos-service") = Lookup(build(Flip(kubeVars)), Urn("Service", "pos-service"))

\* the Deployments and Services other than the point-of-sale pair
NonPos(kind) == { i \in Indices(kind) : graph[i].logical # "pos-deployment"
                                        /\ graph[i].logical # "pos-service" }

\* the Services whose dependsOn is the Deployment at position i
ServicesOf(i) == { j \in Indices("Service") : graph[j].dependsOn = {UrnOf(graph[i])} }

\* C12 as stated: the complete build of the README's configuration (single
\* node) has 5 Secrets, 2 ConfigMaps, 10 application and datastore Deployments
\* with 10 Services, the point-of-sale Deployment and Service, frontend
\* nodePort 30430 and point-of-sale nodePort 30431.
C12_TenWorkloadsAndServices ==
    (pc = "done" /\ kubeVars = DefaultConfig) =>
        /\ Cardinality(Indices("Secret")) = 5
        /\ Cardinality(Indices("ConfigMap")) = 2
        /\ Cardinality(NonPos("Deployment")) = 10
        /\ Cardinality(NonPos("Service")) = 10
        /\ Has("Deployment", "pos-deployment") /\ Has("Service", "pos-service")
        /\ Get("Service", "frontend-service").spec.ports[1].nodePort = 30430
        /\ Get("Service", "pos-service").spec.ports[1].nodePort = 30431

\* C12 amended: it has 5 Secrets, 2 ConfigMaps, 11 application and datastore
\* Deployments (five datastores, cart, catalog, payment, order, users and
\* frontend), each with exactly one Service that depends on it, the
\* point-of-sale Deployment and Service, 31 resources in all, frontend
\* nodePort 30430 and point-of-sale nodePort 30431.
C12_ElevenWorkloadsAndServices ==
    (pc = "done" /\ kubeVars = DefaultConfig) =>
        /\ Cardinality(Indices("Secret")) = 5
        /\ Cardinality(Indices("ConfigMap")) = 2
        /\ Cardinality(NonPos("Deployment")) = 11
        /\ Cardinality(NonPos("Service")) = 11
        /\ \A i \in NonPos("Deployment") :
              Cardinality(ServicesOf(i)) = 1 /\ ServicesOf(i) \subseteq NonPos("Service")
        /\ Has("Deployment", "pos-deployment") /\ Has("Service", "pos-service")
        /\ Get("Service", "pos-service").dependsOn = {Urn("Deployment", "pos-deployment")}
        /\ Len(graph) = 31
        /\ Get("Service", "frontend-service").spec.ports[1].nodePort = 30430
        /\ Get("Service", "pos-service").spec.ports[1].nodePort = 30431

\* C12 witness: the complete build of the README's configuration, with the
\* frontend Deployment and Service among the eleven
C12_Witness ==
    /\ pc = "done" /\ kubeVars = DefaultConfig /\ IsSingleNode
    /\ Has("Deployment", "frontend-deployment") /\ Has("Service", "frontend-service")
    /\ Cardinality(Indices("Deployment")) = 12

\* the resources other than the stack that the README's preview lists, by
\* kind and logical name
ReadmePreview ==
    { Urn("ConfigMap", n) : n \in {"catalog-config-map", "users-config-map"} }
    \cup { Urn("Deployment", n \o "-deployment") :
            n \in {"frontend", "pos", "order-postgres", "payment", "users-redis",
                   "cart-redis", "users", "cart", "catalog", "catalogmongo",
                   "usersmongo", "order"} }
    \cup { Urn("Secret", n) : n \in {"users-mongo-pass", "users-redis-pass",
                                     "order-postgres-pass", "catalog-mongo-pass"} }
    \cup { Urn("Service", n \o "-service") :
            n \in {"frontend", "pos", "order-postgres", "users", "cart-redis",
                   "users-redis", "payment", "cart", "users-mongo", "catalog-mongo",
                   "catalog", "order"} }

\* the number of resources of each kind that a complete run has registered
Counts == [k \in {"ConfigMap", "Secret", "Deployment", "Service"} |-> Cardinality(Indices(k))]

C14_GraphDeterminedByConfig ==
    (hasKubevars /\ Valid(kubeVars)) =>
        LET resubmitted == build(kubeVars) IN
        /\ graph = SubSeq(resubmitted, 1, Len(graph))
        /\ pc = "done" =>
              /\ graph = resubmitted
              /\ Changed(graph, resubmitted) = {}

\* C14 witness: a complete run on a valid configuration with a password other
\* than the README's, whose Secrets are those of the build of that password
C14_Witness ==
    /\ pc = "done" /\ Valid(kubeVars)
    /\ kubeVars.dataStorePassword # HelloWorld
    /\ Get("Secret", "users-redis-pass") # Lookup(build(DefaultConfig), Urn("Secret", "users-redis-pass"))
    /\ Len(graph) = 31

----------------------------------------------------------------------------
(* Properties of the exported outputs *)

\* the Service whose address an output gives
ServiceOfOutput(n) ==
    CASE n = "frontendIP" -> Urn("Service", "frontend-service")
      [] n = "posIP" -> Urn("Service", "pos-service")

\* C15 as stated: no exported output has a value while the engine has not yet
\* created the Service whose address it gives.
C15_OutputKnownAfterServiceCreated ==
    \A n \in DOMAIN outputs :
        outputs[n].known => ServiceOfOutput(n) \in created

\* C16: once the program has exported its outputs on a valid configuration,
\* frontendIP on a single node is "http://localhost:" followed by the decimal
\* frontendNodeport, and posIP, from the creation of the pos Service on and
\* for both values of isSingleNode, is "http://localhost:" followed by the
\* decimal posNodeport; these are http://localhost:30430 and
\* http://localhost:30431 for the README's node ports.
C16_LocalhostOutputs ==
    (outputs # Empty /\ Valid(kubeVars)) =>
        /\ IsSingleNode =>
              /\ outputs.frontendIP.known
              /\ outputs.frontendIP.value = "http://localhost:" \o toString(kubeVars.frontendNodeport)
              /\ kubeVars.frontendNodeport = 30430 =>
                    outputs.frontendIP.value = "http://localhost:30430"
        /\ Urn("Service", "pos-service") \in created => outputs.posIP.known
        /\ outputs.posIP.known =>
              /\ outputs.posIP.value = "http://localhost:" \o toString(kubeVars.posNodeport)
              /\ kubeVars.posNodeport = 30431 => outputs.posIP.value = "http://localhost:30431"

\* C16 witness: on a cluster the pos Service is created and posIP is
\* http://localhost:30431
C16_Witness ==
    /\ IsCluster /\ Valid(kubeVars)
    /\ Urn("Service", "pos-service") \in created
    /\ outputs.posIP = [known |-> TRUE, value |-> "http://localhost:30431"]
    /\ outputs.frontendIP.known

\* a second state of C16's case: a single node with another frontend node port
C16_SingleNodeOtherPort ==
    /\ IsSingleNode /\ outputs # Empty
    /\ outputs.frontendIP.value = "http://localhost:30080"

----------------------------------------------------------------------------
(* Properties of the addresses the workloads are given *)

\* the environment of a Deployment's container
Env(d) == IF "env" \in DOMAIN Container(d) THEN Container(d).env ELSE <<>>

\* the environment variables that name the host of a component of the graph,
\* each with the variable that gives the port of that component when the same
\* container has both.  JAEGER_AGENT_HOST is none of them: its value is
\* localhost, the pod's own host.
HostVars ==
    [ REDIS_HOST |-> "REDIS_PORT",
      USER_HOST |-> "USER_PORT",
      USERS_HOST |-> "USERS_PORT",
      CATALOG_DB_HOST |-> "CATALOG_DB_PORT",
      ORDER_DB_HOST |-> "ORDER_DB_PORT",
      USERS_DB_HOST |-> "USERS_DB_PORT",
      PAYMENT_HOST |-> "PAYMENT_PORT",
      CATALOG_HOST |-> "CATALOG_PORT",
      ORDER_HOST |-> "ORDER_PORT",
      CART_HOST |-> "CART_PORT",
      FRONTEND_HOST |-> "FRONTEND_PORT" ]

\* the registered Services that a host value names, by metadata.name or by
\* its DNS form in the default namespace
ServicesNamed(host) ==
    { j \in Indices("Service") :
        \/ host = graph[j].metadata.name
        \/ host = graph[j].metadata.name \o ".default.svc.cluster.local" }

HostsOf(w) ==
    { <<Env(Get("Deployment", w))[k].name, Env(Get("Deployment", w))[k].value>> :
        k \in { l \in 1..Len(Env(Get("Deployment", w))) :
                  Env(Get("Deployment", w))[l].name \in DOMAIN HostVars } }

----------------------------------------------------------------------------
(* Properties of the Deployments and of the names *)

\* the logical names of the five datastore Deployments
DatastoreDeployments ==
    { "cart-redis-deployment", "catalogmongo-deployment", "order-postgres-deployment",
      "usersmongo-deployment", "users-redis-deployment" }

Recreates(d) == "strategy" \in DOMAIN d.spec /\ d.spec.strategy = [type |-> "Recreate"]

\* C18 as stated: every registered Deployment declares the strategy Recreate.
C18_EveryWorkloadRecreates ==
    \A i \in Indices("Deployment") : Recreates(graph[i])

\* C18 amended: the seven application Deployments (cart, catalog, payment,
\* order, users, frontend, pos) declare the strategy Recreate; the five
\* datastore Deployments declare no strategy, which leaves them on the
\* platform's rolling default.
C18_ApplicationWorkloadsRecreate ==
    /\ \A i \in Indices("Deployment") :
          IF graph[i].logical \in DatastoreDeployments
            THEN "strategy" \notin DOMAIN graph[i].spec
            ELSE Recreates(graph[i])
    /\ pc = "done" =>
          /\ \A n \in DatastoreDeployments : Has("Deployment", n)
          /\ Cardinality({ i \in Indices("Deployment") : Recreates(graph[i]) }) = 7

\* C18 witness: a complete build, with cart-redis without a strategy and cart
\* with Recreate
C18_Witness ==
    /\ pc = "done"
    /\ "strategy" \notin DOMAIN Get("Deployment", "cart-redis-deployment").spec
    /\ Recreates(Get("Deployment", "cart-deployment"))
    /\ Recreates(Get("Deployment", "pos-deployment"))

\* the identity of a resource: kind, logical name and metadata.name
Identity(r) == <<r.kind, r.logical, r.metadata.name>>

Identities(g) == { Identity(g[i]) : i \in 1..Len(g) }

\* the identities of the build of the README's configuration
FixedIdentities == Identities(build(DefaultConfig))

\* C19: the identities registered on any configuration are identities of the
\* build of the README's configuration, and all 31 of them once the run is
\* complete; no two registered resources of one kind have the same logical
\* name or the same metadata.name.
C19_FixedDistinctIdentities ==
    /\ Identities(graph) \subseteq FixedIdentities
    /\ pc = "done" => Identities(graph) = FixedIdentities
    /\ Cardinality(FixedIdentities) = 31
    /\ Cardinality({ <<graph[i].kind, graph[i].logical>> : i \in 1..Len(graph) }) = Len(graph)
    /\ Cardinality({ <<graph[i].kind, graph[i].metadata.name>> : i \in 1..Len(graph) }) = Len(graph)

\* C19 witness: a complete build with a password and a users port other than
\* the README's, with both ConfigMaps under different names
C19_Witness ==
    /\ pc = "done"
    /\ kubeVars.dataStorePassword # HelloWorld
    /\ kubeVars.usersPort = 8080
    /\ Get("ConfigMap", "catalog-config-map").metadata.name
         # Get("ConfigMap", "users-config-map").metadata.name
    /\ Cardinality(Identities(graph)) = 31

----------------------------------------------------------------------------
(* Properties of the Secrets *)

\* the constructor of ACMESecrets runs
Called == "passwords" \in DOMAIN args

\* the list entry for which the i-th registered resource was constructed
ListEntry(i) == IF Called THEN args.passwords[i - 1] ELSE passwords[i]

\* the password that the Secrets of the run are to carry
SharedPassword == IF Called THEN args.secretValue ELSE kubeVars.dataStorePassword

\* C20: every registered Secret, of the passwords loop of index.ts and of the
\* constructor of ACMESecrets alike, has the logical name and the
\* metadata.name of its list entry, type Opaque and the one data key password,
\* whose value is the base64 text of the shared password (aGVsbG93b3JsZA== for
\* helloworld, YWJj for abc, YWI= for ab, the empty text for the empty
\* password); all registered Secrets have equal data, and a completed loop
\* has registered one Secret for every list entry.
C20_SecretsCarrySharedPassword ==
    /\ \A i \in Indices("Secret") :
          /\ graph[i].logical = ListEntry(i)
          /\ graph[i].metadata.name = ListEntry(i)
          /\ graph[i].type = "Opaque"
          /\ DOMAIN graph[i].data = {"password"}
          /\ graph[i].data.password = toBase64(SharedPassword)
          /\ SharedPassword = HelloWorld => graph[i].data.password = "aGVsbG93b3JsZA=="
          /\ SharedPassword = <<97, 98, 99>> => graph[i].data.password = "YWJj"
          /\ SharedPassword = <<97, 98>> => graph[i].data.password = "YWI="
          /\ SharedPassword = <<>> => graph[i].data.password = ""
    /\ \A i, j \in Indices("Secret") : graph[i].data = graph[j].data
    /\ pc = "constructed" => Cardinality(Indices("Secret")) = Len(args.passwords)
    /\ pc \in {"catalogConfigMap", "done"} => Cardinality(Indices("Secret")) = Len(passwords)

\* C20 witness: the constructor of ACMESecrets has returned after registering
\* two Secrets with the text YWJj
C20_Witness ==
    /\ Called /\ pc = "constructed"
    /\ args.secretValue = <<97, 98, 99>>
    /\ Cardinality(Indices("Secret")) = 2
    /\ \A i \in Indices("Secret") : graph[i].data = [password |-> "YWJj"]

\* a second state of C20's case: the passwords loop of index.ts has ended
\* with five Secrets of the README's password
C20_InlineLoopEnded ==
    /\ ~Called /\ pc = "catalogConfigMap"
    /\ kubeVars.dataStorePassword = HelloWorld
    /\ Cardinality(Indices("Secret")) = 5

----------------------------------------------------------------------------
(* Properties of the exposure and of the dependsOn options *)

\* the logical names of the Services of the services table
TableServices ==
    { n \o "-service" : n \in {"cart-redis", "cart", "catalog-mongo", "catalog", "payment",
                               "order-postgres", "order", "users-mongo", "users-redis", "users"} }

\* C21: a registered Service declares a type exactly if it is the frontend or
\* the pos Service; the frontend's type is NodePort on a single node and
\* LoadBalancer otherwise, the pos Service's type is NodePort; the Services of
\* the services table declare no type and no nodePort, and a complete build
\* has all ten of them and the two others.
C21_TwoExposedServices ==
    /\ \A i \in Indices("Service") :
          /\ "type" \in DOMAIN graph[i].spec
                <=> graph[i].logical \in {"frontend-service", "pos-service"}
          /\ graph[i].logical \in TableServices =>
                \A k \in 1..Len(graph[i].spec.ports) :
                    "nodePort" \notin DOMAIN graph[i].spec.ports[k]
          /\ graph[i].logical = "frontend-service" =>
                graph[i].spec.type = IF IsSingleNode THEN "NodePort" ELSE "LoadBalancer"
          /\ graph[i].logical = "pos-service" => graph[i].spec.type = "NodePort"
    /\ pc = "done" =>
          /\ { graph[i].logical : i \in Indices("Service") }
                = TableServices \cup {"frontend-service", "pos-service"}
          /\ Cardinality({ i \in Indices("Service") : "type" \notin DOMAIN graph[i].spec }) = 10

\* C21 witness: a complete cluster build with the frontend as LoadBalancer,
\* pos as NodePort and the users Service without a type
C21_Witness ==
    /\ pc = "done" /\ IsCluster
    /\ Get("Service", "frontend-service").spec.type = "LoadBalancer"
    /\ Get("Service", "pos-service").spec.type = "NodePort"
    /\ "type" \notin DOMAIN Get("Service", "users-service").spec

\* all dependsOn options of a graph, registered target or not
AllEdges(g) == UNION { { <<UrnOf(g[i]), d>> : d \in g[i].dependsOn } : i \in 1..Len(g) }

\* the Deployment behind each of the twelve Services, by logical names
OwnDeployment ==
    [ n \in TableServices \cup {"frontend-service", "pos-service"} |->
        CASE n = "catalog-mongo-service" -> "catalogmongo-deployment"
          [] n = "users-mongo-service" -> "usersmongo-deployment"
          [] n = "cart-redis-service" -> "cart-redis-deployment"
          [] n = "cart-service" -> "cart-deployment"
          [] n = "catalog-service" -> "catalog-deployment"
          [] n = "payment-service" -> "payment-deployment"
          [] n = "order-postgres-service" -> "order-postgres-deployment"
          [] n = "order-service" -> "order-deployment"
          [] n = "users-redis-service" -> "users-redis-deployment"
          [] n = "users-service" -> "users-deployment"
          [] n = "frontend-service" -> "frontend-deployment"
          [] n = "pos-service" -> "pos-deployment" ]

\* the fourteen dependsOn options of the program
FourteenEdges ==
    { <<Urn("Deployment", "catalogmongo-deployment"), Urn("ConfigMap", "catalog-config-map")>>,
      <<Urn("Deployment", "usersmongo-deployment"), Urn("ConfigMap", "users-config-map")>> }
    \cup { <<Urn("Service", n), Urn("Deployment", OwnDeployment[n])>> : n \in DOMAIN OwnDeployment }

\* C22: the dependsOn options registered so far are among the fourteen of
\* the two mongo Deployments on their ConfigMaps and of the twelve Services
\* on their own Deployments, and a complete build has exactly these fourteen;
\* so no Deployment waits for another Deployment or for a Service, and the
\* engine does create an application Deployment while the Services it
\* addresses are not created (the state of the witness).
C22_ExactlyFourteenEdges ==
    /\ AllEdges(graph) \subseteq FourteenEdges
    /\ Cardinality(FourteenEdges) = 14
    /\ pc = "done" => AllEdges(graph) = FourteenEdges
    /\ \A i \in Indices("Deployment") :
          \A d \in graph[i].dependsOn : d[1] = "ConfigMap"

\* C22 witness: the engine has created the cart Deployment of a complete
\* build while neither the users Service nor the cart-redis Service, which
\* its environment names, is created
C22_Witness ==
    /\ pc = "done"
    /\ AllEdges(graph) = FourteenEdges
    /\ Urn("Deployment", "cart-deployment") \in created
    /\ Urn("Service", "users-service") \notin created
    /\ Urn("Service", "cart-redis-service") \notin created
    /\ HostsOf("cart-deployment") = { <<"REDIS_HOST", "cart-redis">>, <<"USER_HOST", "users">> }

\* the value of the environment variable n of Deployment w
EnvValue(w, n) ==
    { Env(Get("Deployment", w))[k].value :
        k \in { l \in 1..Len(Env(Get("Deployment", w))) : Env(Get("Deployment", w))[l].name = n } }

\* C23: once the frontend Deployment and Service are registered, in either
\* exposure mode the Service's one port entry has port 80 and as targetPort
\* kubeVars.frontendPort, which is the frontend container's containerPort and,
\* in decimal, its FRONTEND_PORT; once the pos Deployment and Service are
\* registered, the Service's port and targetPort and the container's
\* containerPort are 7777.
C23_FrontendAndPosTargetPorts ==
    /\ (Has("Deployment", "frontend-deployment") /\ Has("Service", "frontend-service")) =>
          LET p == Get("Service", "frontend-service").spec.ports IN
          /\ Len(p) = 1
          /\ p[1].port = 80
          /\ "targetPort" \in DOMAIN p[1]
          /\ p[1].targetPort = kubeVars.frontendPort
          /\ Container(Get("Deployment", "frontend-deployment")).ports
                = << [name |-> "frontend", containerPort |-> kubeVars.frontendPort] >>
          /\ EnvValue("frontend-deployment", "FRONTEND_PORT") = {toString(p[1].targetPort)}
    /\ (Has("Deployment", "pos-deployment") /\ Has("Service", "pos-service")) =>
          LET p == Get("Service", "pos-service").spec.ports IN
          /\ Len(p) = 1
          /\ p[1].port = 7777 /\ p[1].targetPort = 7777
          /\ Len(Container(Get("Deployment", "pos-deployment")).ports) = 1
          /\ Container(Get("Deployment", "pos-deployment")).ports[1].containerPort = 7777

\* C23 witness: complete builds exist in both modes; this one is a single
\* node with frontendPort 8080, which the Service targets from port 80
C23_Witness ==
    /\ pc = "done" /\ IsSingleNode
    /\ kubeVars.frontendPort = 8080
    /\ Get("Service", "frontend-service").spec.ports[1].targetPort = 8080
    /\ EnvValue("frontend-deployment", "FRONTEND_PORT") = {"8080"}
    /\ Get("Service", "pos-service").spec.ports[1].targetPort = 7777

\* a second state of C23's case: the cluster mode
C23_ClusterMode ==
    /\ pc = "done" /\ IsCluster
    /\ Get("Service", "frontend-service").spec.ports[1].targetPort = 3000

----------------------------------------------------------------------------
(* Termination of the engine *)

\* every dependsOn of a registered resource names a resource registered before it
EdgesPointBack ==
    \A i \in 1..Len(graph) :
        \A d \in graph[i].dependsOn :
            \E j \in 1..(i - 1) : UrnOf(graph[j]) = d

\* once the program has ended, the engine is done or has a step to take
EngineNotStuck ==
    (pc \in {"done", "failed"} /\ created # Registered) =>
        \/ inflight # {}
        \/ \E i \in 1..Len(graph) : Startable(i)

AllCreated == pc \in {"done", "failed"} /\ inflight = {} /\ created = Registered

\* C24: every dependsOn names a resource constructed earlier in the program,
\* so that the options form no cycle; the engine, which starts a resource only
\* when all of its dependsOn are created, is never stuck before everything
\* registered is created, and under weak fairness it ends with everything
\* registered created for good, which is all 31 resources on a valid
\* configuration.
C24_EngineCreatesEverything ==
    /\ [](EdgesPointBack /\ EngineNotStuck)
    /\ <>[](AllCreated /\ (Valid(kubeVars) => Cardinality(created) = 31))

\* C24 witness: on a valid configuration all 31 resources are created
C24_Witness ==
    /\ Valid(kubeVars) /\ AllCreated
    /\ Cardinality(created) = 31
    /\ Cardinality(AllEdges(graph)) = 14

----------------------------------------------------------------------------
(* Properties of the selectors and of the node ports *)

\* C25: the matchLabels of the selector of every registered Deployment are
\* exactly the labels of its pod template, and a complete build has twelve
\* Deployments, under twelve different label sets.
C25_DeploymentSelectsItsPods ==
    /\ \A i \in Indices("Deployment") :
          /\ DOMAIN graph[i].spec.selector = {"matchLabels"}
          /\ graph[i].spec.selector.matchLabels = PodLabels(graph[i])
          /\ DOMAIN PodLabels(graph[i]) = {"app", "service"}
    /\ pc = "done" =>
          /\ Cardinality(Indices("Deployment")) = 12
          /\ Cardinality({ PodLabels(graph[i]) : i \in Indices("Deployment") }) = 12

\* C25 witness: a complete build, in which the order-postgres Deployment
\* selects service order-db and its metadata has other labels than its selector
C25_Witness ==
    /\ pc = "done"
    /\ Get("Deployment", "order-postgres-deployment").spec.selector.matchLabels
          = [app |-> "acmefit", service |-> "order-db"]
    /\ Get("Deployment", "cart-redis-deployment").metadata.labels
          # Get("Deployment", "cart-redis-deployment").spec.selector.matchLabels

\* the outputs of a run on kv once the engine has created the pos Service
ResolvedOutputs(kv) ==
    [ frontendIP |-> frontendIP(kv),
      posIP |-> [known |-> TRUE,
                 value |-> Concat("http://localhost:", posService(kv).spec.ports[1], "nodePort")] ]

\* C26: when the engine has created everything of a complete build on a
\* valid configuration, the outputs are those of the configuration, and
\* (1) on a cluster the build and the outputs of the configuration with
\* another frontendNodeport, or with none, are the same graph and the same
\* outputs; (2) in both modes the build of the configuration with another
\* posNodeport differs in the pos Service and in nothing else, and its outputs
\* differ in posIP and not in frontendIP.
C26_NodeportInfluence ==
    (pc = "done" /\ Valid(kubeVars) /\ AllCreated) =>
        /\ outputs = ResolvedOutputs(kubeVars)
        /\ IsCluster =>
              \A kv \in { [kubeVars EXCEPT !.frontendNodeport = v] :
                            v \in OtherValues("frontendNodeport", kubeVars) }
                        \cup {Drop(kubeVars, "frontendNodeport")} :
                  /\ graph = build(kv)
                  /\ outputs = ResolvedOutputs(kv)
        /\ \A v \in OtherValues("posNodeport", kubeVars) :
              LET kv == [kubeVars EXCEPT !.posNodeport = v] IN
              /\ Changed(graph, build(kv)) = {Urn("Service", "pos-service")}
              /\ Lookup(build(kv), Urn("Service", "pos-service")).spec.ports[1].nodePort = v
              /\ ResolvedOutputs(kv).posIP # outputs.posIP
              /\ ResolvedOutputs(kv).posIP.value = "http://localhost:" \o toString(v)
              /\ ResolvedOutputs(kv).frontendIP = outputs.frontendIP

\* C26 witness: everything of a cluster build with posNodeport 30080 is
\* created, posIP is http://localhost:30080 and the frontend Service has no
\* nodePort
C26_Witness ==
    /\ pc = "done" /\ Valid(kubeVars) /\ AllCreated /\ IsCluster
    /\ kubeVars.posNodeport = 30080
    /\ outputs.posIP = [known |-> TRUE, value |-> "http://localhost:30080"]
    /\ "nodePort" \notin DOMAIN Get("Service", "frontend-service").spec.ports[1]
    /\ OtherValues("frontendNodeport", kubeVars) # {}

\* a second state of C26's case: a single node, where posNodeport shows in posIP
C26_SingleNode ==
    /\ pc = "done" /\ Valid(kubeVars) /\ AllCreated /\ IsSingleNode
    /\ outputs.posIP.value = "http://localhost:30431"

====
